---- MODULE Spec2Model ----
(***************************************************************************)
(* cake-bot: review-status labels on pull-request issues.                  *)
(*                                                                         *)
(* Strings whose content the code inspects (issue titles, issue bodies,    *)
(* comment bodies) are sequences of one-character strings; label names and *)
(* colors, which the code only compares or lower-cases as a whole, are     *)
(* TLA+ strings.                                                           *)
(***************************************************************************)
EXTENDS Integers, Sequences, FiniteSets, TLC

VARIABLES
    review,       \* the ReviewRequest under construction / being reconciled
    status,       \* result of the last CalculateAppropriateStatus, or "none"
    issueTitle,   \* tracker side: the issue's title
    issueBody,    \* tracker side: the issue's body
    srvComments,  \* tracker side: the issue's comments, as the pages served
    srvLabels,    \* tracker side: the issue's labels
    pc,           \* position of the single-issue flow
    page,         \* loadComments: opts.ListOptions.Page (1-based)
    allComments,  \* loadComments: accumulator
    calls,        \* remote calls issued by the current invocation
    err,          \* what updateIssueReviewLabels returned: "none" until it has
    run,          \* number of invocations started
    prev,         \* the previous invocation: its review, calls, status and err
    repoLabels,   \* tracker side: each repository's label definitions
    provRun,      \* number of setupReviewFlagsInRepo runs made
    result,       \* the last setupReviewFlagsInRepo run: what it fetched, called, returned
    prevResult,   \* the run before it
    entry,        \* the function the bulk-sync model runs
    orgPages,     \* tracker side: the organization's issues, as the pages served
    tracker,      \* tracker side: each issue's pull-request linkage, title, comments, labels
    repoPages,    \* tracker side: the organization's repositories, as the pages served
    mainPc,       \* runBulkSync's own position
    wg,           \* runBulkSync's WaitGroup counter
    walkPc,       \* runBulkSync's first goroutine (repositories)
    issuePc,      \* runBulkSync's second goroutine (issues)
    walk,         \* ReviewRequestsInOrg's locals: page, index in the page, allIssues
    spawnIdx,     \* the second goroutine's position in its loop over issues
    task,         \* the per-issue goroutines, in spawn order
    ePc,          \* ensureOrgReposHaveLabels' position
    ePage,        \* ensureOrgReposHaveLabels: opts.ListOptions.Page (1-based)
    eErr,         \* what ensureOrgReposHaveLabels returned
    repoWg,       \* ensureOrgReposHaveLabels' WaitGroup counter
    repoTask,     \* the per-repository goroutines
    serverLinks,  \* tracker side: the entries of the link list it sends
    linkResp,     \* the response handed to ghNextPageURL
    nextURL,      \* what ghNextPageURL returned
    delivery,     \* the webhook request: event type and body
    decoded,      \* githubWebhook: whether the body has been read by the decoder
    responseCode  \* githubWebhook: the status code written

reconcileVars == <<review, status, issueTitle, issueBody, srvComments, srvLabels,
                   pc, page, allComments, calls, err, run, prev>>
provVars == <<repoLabels, provRun, result, prevResult>>

syncVars == <<entry, orgPages, tracker, repoPages, mainPc, wg, walkPc, issuePc,
              walk, spawnIdx, task, ePc, ePage, eErr, repoWg, repoTask>>

linkVars == <<serverLinks, linkResp, nextURL>>

webVars == <<delivery, decoded, responseCode>>

vars == <<reconcileVars, provVars, syncVars, linkVars, webVars>>

(***************************************************************************)
(* Bounds                                                                  *)
(***************************************************************************)
MaxTitleLen == 4
MaxComments == 2
MaxLabels == 3
MaxRuns == 2
MaxRepoLabels == 3
MaxIssues == 2
MaxRepos == 2

(***************************************************************************)
(* Constants of the program                                                *)
(***************************************************************************)
WIPLabel == "wip"
CakedLabel == "caked"
AwaitingCakeLabel == "awaiting-cake"

StatusLabels == {WIPLabel, CakedLabel, AwaitingCakeLabel}

\* the pattern of WIPRegex, "(?i)wip", without its flag
WIPPattern == <<"w", "i", "p">>

\* the literal searched in comment bodies
CakeMarker == <<":", "c", "a", "k", "e", ":">>

(***************************************************************************)
(* String helpers                                                          *)
(***************************************************************************)
\* case folding of one character, over the characters the model uses
FoldChar(c) ==
    CASE c = "W" -> "w"
      [] c = "I" -> "i"
      [] c = "P" -> "p"
      [] c = "C" -> "c"
      [] c = "S" -> "s"
      [] OTHER -> c

FoldStr(s) == [i \in 1..Len(s) |-> FoldChar(s[i])]

\* strings.Contains(s, sub)
Contains(s, sub) ==
    \E i \in 0..(Len(s) - Len(sub)) : SubSeq(s, i + 1, i + Len(sub)) = sub

\* WIPRegex.MatchString(s): an unanchored, case-insensitive match of "wip"
WIPRegexMatch(s) == Contains(FoldStr(s), WIPPattern)

(***************************************************************************)
(* Status classifier                                                       *)
(***************************************************************************)
IsWIPBodyToo(r) == WIPRegexMatch(r.title) \/ WIPRegexMatch(r.body)
IsWIP(r) == WIPRegexMatch(r.title)

RECURSIVE IsCakedFrom(_, _)
IsCakedFrom(comments, i) ==
    IF i > Len(comments) THEN FALSE
    ELSE IF Contains(comments[i], CakeMarker) THEN TRUE
    ELSE IsCakedFrom(comments, i + 1)

IsCaked(r) == IsCakedFrom(r.comments, 1)

CalculateAppropriateStatus(r) ==
    IF IsWIP(r) THEN WIPLabel
    ELSE IF IsCaked(r) THEN CakedLabel
    ELSE AwaitingCakeLabel

(***************************************************************************)
(* Label reconciler: the loop of updateIssueReviewLabels over              *)
(* review.issue.Labels, from position i with the loop state acc            *)
(***************************************************************************)
ScanStepNoSkip(acc, name) ==
    [acc EXCEPT !.oldLabels = Append(@, name),
                !.found = @ \/ name \in StatusLabels,
                !.incorrect = @ \/ (name \in StatusLabels /\ name # acc.newLabels[1]),
                !.newLabels = Append(@, name)]
ScanStepSkipTargetOnly(acc, name) ==
    IF name = acc.newLabels[1]
    THEN [acc EXCEPT !.oldLabels = Append(@, name),
                     !.found = TRUE]
    ELSE [acc EXCEPT !.oldLabels = Append(@, name),
                     !.found = @ \/ name \in StatusLabels,
                     !.incorrect = @ \/ name \in StatusLabels,
                     !.newLabels = Append(@, name)]
ScanStep(acc, name) ==
    IF name \in {WIPLabel, CakedLabel, AwaitingCakeLabel}
    THEN [acc EXCEPT !.oldLabels = Append(@, name),
                     !.found = TRUE,
                     !.incorrect = @ \/ (name # acc.newLabels[1])]
    ELSE [acc EXCEPT !.oldLabels = Append(@, name),
                     !.newLabels = Append(@, name)]

RECURSIVE ScanLabelsFrom(_, _, _)
ScanLabelsFrom(labels, i, acc) ==
    IF i > Len(labels) THEN acc
    ELSE ScanLabelsFrom(labels, i + 1, ScanStep(acc, labels[i]))

ScanLabels(r) ==
    ScanLabelsFrom(r.labels, 1,
                   [oldLabels |-> <<>>,
                    newLabels |-> <<CalculateAppropriateStatus(r)>>,
                    found |-> FALSE,
                    incorrect |-> FALSE])

\* the switch that sets labelsNeedUpdating
LabelsNeedUpdatingOnlyIfMissing(scan) == ~scan.found
LabelsNeedUpdatingAlways(scan) == TRUE
LabelsNeedUpdating(scan) ==
    IF ~scan.found THEN TRUE
    ELSE IF scan.incorrect THEN TRUE
    ELSE FALSE

(***************************************************************************)
(* Remote calls, as logged                                                 *)
(***************************************************************************)
ListCommentsCall(p, ok) ==
    [by |-> "loadComments", op |-> "ListComments", arg |-> <<p>>, ok |-> ok]
ReplaceLabelsCall(labels, ok) ==
    [by |-> "updateIssueReviewLabels", op |-> "ReplaceLabelsForIssue",
     arg |-> labels, ok |-> ok]

NoReview == [title |-> <<>>, body |-> <<>>, labels |-> <<>>, comments |-> <<>>]
NoPrev == [review |-> NoReview, calls |-> <<>>, status |-> "none", err |-> "none"]

NoResult == [current |-> <<>>, calls |-> <<>>, labels |-> <<>>, err |-> "none"]

\* the provisioner's variables when no provisioning is modelled
ProvIdle ==
    /\ repoLabels = <<>>
    /\ provRun = 0
    /\ result = NoResult
    /\ prevResult = NoResult

NoWalk == [p |-> 0, idx |-> 0, allIssues |-> <<>>, err |-> "none", log |-> <<>>]

\* the requests of the issue walk, in the order they are made
OrgIssuesCall(p, ok) == [op |-> "ghGet", id |-> 0, page |-> p, ok |-> ok]

WalkCommentsCall(id, p, ok) == [op |-> "ListComments", id |-> id, page |-> p, ok |-> ok]

\* the link parser's variables when it is not modelled
LinkIdle ==
    /\ serverLinks = <<>>
    /\ linkResp = [kind |-> "none"]
    /\ nextURL = [returned |-> FALSE, url |-> <<>>]

\* the webhook handler's variables when no delivery is modelled
WebIdle ==
    /\ delivery = [event |-> "none"]
    /\ decoded = FALSE
    /\ responseCode = 0

\* the bulk sync's variables when no bulk sync is modelled
SyncIdle ==
    /\ entry = "none"
    /\ orgPages = <<>> /\ tracker = <<>> /\ repoPages = <<>>
    /\ mainPc = "none" /\ wg = 0
    /\ walkPc = "none" /\ issuePc = "none"
    /\ walk = NoWalk /\ spawnIdx = 0 /\ task = <<>>
    /\ ePc = "none" /\ ePage = 0 /\ eErr = "none"
    /\ repoWg = 0 /\ repoTask = <<>>

(***************************************************************************)
(* Input spaces                                                            *)
(***************************************************************************)
SeqsUpTo(S, n) == UNION {[1..k -> S] : k \in 0..n}

NoDup(s) == \A i, j \in 1..Len(s) : i # j => s[i] # s[j]

TitleChars == {"w", "W", "i", "I", "p", "P", "s"}
Titles == SeqsUpTo(TitleChars, MaxTitleLen)

B_ok == <<"o", "k">>
B_cake == <<"g", "o", " ", ":", "c", "a", "k", "e", ":", "!">>
B_Cake == <<":", "C", "a", "k", "e", ":">>
CommentBodies == {B_ok, B_cake, B_Cake}
CommentLists == SeqsUpTo(CommentBodies, MaxComments)
IssueBodies == {<<>>, <<"w", "i", "p", " ">> \o CakeMarker}

(***************************************************************************)
(* The classifier applied to drawn inputs                                  *)
(***************************************************************************)
InitClassify ==
    /\ review \in [title : Titles, body : IssueBodies,
                   labels : {<<>>}, comments : CommentLists]
    /\ status = "none"
    /\ pc = "classify"
    /\ issueTitle = <<>> /\ issueBody = <<>>
    /\ srvComments = <<>> /\ srvLabels = <<>>
    /\ page = 0 /\ allComments = <<>> /\ calls = <<>>
    /\ err = "none" /\ run = 0 /\ prev = NoPrev
    /\ ProvIdle
    /\ SyncIdle
    /\ LinkIdle
    /\ WebIdle

Classify ==
    /\ pc = "classify"
    /\ status' = CalculateAppropriateStatus(review)
    /\ pc' = "classified"
    /\ UNCHANGED <<review, issueTitle, issueBody, srvComments, srvLabels,
                   page, allComments, calls, err, run, prev>>
    /\ UNCHANGED <<provVars, syncVars, linkVars, webVars>>

NextClassify == Classify

SpecClassify == InitClassify /\ [][NextClassify]_vars

(***************************************************************************)
(* Single-issue flow: ReviewRequestFromIssue, then updateIssueReviewLabels,*)
(* invoked up to MaxRuns times in succession for one issue (one invocation *)
(* per delivered event); each invocation receives the issue as the tracker *)
(* holds it at that moment                                                 *)
(***************************************************************************)
LabelNames == {WIPLabel, CakedLabel, AwaitingCakeLabel, "team:x", "bug"}
LabelLists == {l \in SeqsUpTo(LabelNames, MaxLabels) : NoDup(l)}

T_wip == <<"W", "I", "P", ":", " ", "x">>
T_add == <<"A", "d", "d">>
IssueTitles == {T_wip, T_add}

\* comment histories, each as the pages the tracker serves (the last page is
\* the one whose response carries NextPage = 0)
Histories ==
    { << <<>> >>,
      << <<B_ok, B_Cake>> >>,
      << <<B_ok>>, <<B_cake>> >> }

InitReconcile ==
    /\ issueTitle \in IssueTitles
    /\ issueBody = <<>>
    /\ srvComments \in Histories
    /\ srvLabels \in LabelLists
    /\ review = NoReview
    /\ status = "none"
    /\ pc = "idle"
    /\ page = 0 /\ allComments = <<>> /\ calls = <<>>
    /\ err = "none" /\ run = 0 /\ prev = NoPrev
    /\ ProvIdle
    /\ SyncIdle
    /\ LinkIdle
    /\ WebIdle

\* ReviewRequestFromIssue up to its call of loadComments, and loadComments up
\* to its loop
ReviewRequestFromIssue ==
    /\ pc \in {"idle", "done"}
    /\ run < MaxRuns
    /\ run' = run + 1
    /\ prev' = IF pc = "done"
               THEN [review |-> review, calls |-> calls,
                     status |-> status, err |-> err]
               ELSE prev
    /\ review' = [title |-> issueTitle, body |-> issueBody,
                  labels |-> srvLabels, comments |-> <<>>]
    /\ status' = "none"
    /\ err' = "none"
    /\ calls' = <<>>
    /\ page' = 1
    /\ allComments' = <<>>
    /\ pc' = "loadComments"
    /\ UNCHANGED <<issueTitle, issueBody, srvComments, srvLabels>>
    /\ UNCHANGED <<provVars, syncVars, linkVars, webVars>>

\* one iteration of loadComments' loop whose ListComments call succeeds
LoadCommentsPage ==
    /\ pc = "loadComments"
    /\ calls' = Append(calls, ListCommentsCall(page, TRUE))
    /\ allComments' = allComments \o srvComments[page]
    /\ IF page = Len(srvComments)
       THEN /\ review' = [review EXCEPT !.comments = allComments']
            /\ pc' = "update"
            /\ page' = page
       ELSE /\ page' = page + 1
            /\ UNCHANGED <<review, pc>>
    /\ UNCHANGED <<status, issueTitle, issueBody, srvComments, srvLabels,
                   err, run, prev>>
    /\ UNCHANGED <<provVars, syncVars, linkVars, webVars>>

\* one iteration whose ListComments call fails: loadComments returns the
\* error, and ReviewRequestFromIssue returns the review as it is
LoadCommentsError ==
    /\ pc = "loadComments"
    /\ calls' = Append(calls, ListCommentsCall(page, FALSE))
    /\ pc' = "update"
    /\ UNCHANGED <<review, status, issueTitle, issueBody, srvComments,
                   srvLabels, page, allComments, err, run, prev>>
    /\ UNCHANGED <<provVars, syncVars, linkVars, webVars>>

\* updateIssueReviewLabels, its one remote call succeeding (ok) or failing
updateIssueReviewLabels ==
    /\ pc = "update"
    /\ LET scan == ScanLabels(review) IN
       /\ status' = scan.newLabels[1]
       /\ IF LabelsNeedUpdating(scan)
          THEN \E ok \in BOOLEAN :
                 /\ calls' = Append(calls, ReplaceLabelsCall(scan.newLabels, ok))
                 /\ srvLabels' = IF ok THEN scan.newLabels ELSE srvLabels
                 /\ err' = IF ok THEN "nil" ELSE "error"
          ELSE /\ err' = "nil"
               /\ UNCHANGED <<calls, srvLabels>>
    /\ pc' = "done"
    /\ UNCHANGED <<review, issueTitle, issueBody, srvComments, page,
                   allComments, run, prev>>
    /\ UNCHANGED <<provVars, syncVars, linkVars, webVars>>

NextReconcile ==
    \/ ReviewRequestFromIssue
    \/ LoadCommentsPage
    \/ LoadCommentsError
    \/ updateIssueReviewLabels

SpecReconcile == InitReconcile /\ [][NextReconcile]_vars

(***************************************************************************)
(* Label provisioner: setupReviewFlagsInRepo                               *)
(***************************************************************************)
LabelColors ==
    [l \in {WIPLabel, CakedLabel, AwaitingCakeLabel} |->
        CASE l = WIPLabel -> "207de5"
          [] l = CakedLabel -> "009800"
          [] l = AwaitingCakeLabel -> "eb6420"]

deprecatedLabels == <<"Awaiting Cake">>

\* strings.ToLower, over the label names the model uses
ToLower(name) ==
    CASE name = "WIP" -> "wip"
      [] name = "Caked" -> "caked"
      [] name = "Awaiting Cake" -> "awaiting cake"
      [] OTHER -> name

ListLabelsCall == [op |-> "ListLabels", name |-> "", color |-> ""]
DeleteLabelCall(name) == [op |-> "DeleteLabel", name |-> name, color |-> ""]
CreateLabelCall(name, color) == [op |-> "CreateLabel", name |-> name, color |-> color]
EditLabelCall(name, color) == [op |-> "EditLabel", name |-> name, color |-> color]

\* the inner loop over currentLabels for one deprecated label, from position i:
\* the DeleteLabel calls it makes
RECURSIVE DeleteCallsForExact(_, _, _)
DeleteCallsForExact(label, currentLabels, i) ==
    IF i > Len(currentLabels) THEN <<>>
    ELSE (IF currentLabels[i].name = label
          THEN <<DeleteLabelCall(currentLabels[i].name)>>
          ELSE <<>>) \o DeleteCallsForExact(label, currentLabels, i + 1)
RECURSIVE DeleteCallsFor(_, _, _)
DeleteCallsFor(label, currentLabels, i) ==
    IF i > Len(currentLabels) THEN <<>>
    ELSE (IF ToLower(currentLabels[i].name) = ToLower(label)
          THEN <<DeleteLabelCall(currentLabels[i].name)>>
          ELSE <<>>) \o DeleteCallsFor(label, currentLabels, i + 1)

\* the outer loop over deprecatedLabels, from position d
RECURSIVE DeprecatedCalls(_, _)
DeprecatedCalls(currentLabels, d) ==
    IF d > Len(deprecatedLabels) THEN <<>>
    ELSE DeleteCallsFor(deprecatedLabels[d], currentLabels, 1)
         \o DeprecatedCalls(currentLabels, d + 1)

\* the scan of currentLabels for one canonical label, from position i: the
\* values of found and needsUpdating when the scan ends or breaks
RECURSIVE FindLabel(_, _, _, _)
FindLabel(currentLabels, i, label, color) ==
    IF i > Len(currentLabels) THEN [found |-> FALSE, needsUpdating |-> FALSE]
    ELSE IF currentLabels[i].name = label
    THEN [found |-> TRUE, needsUpdating |-> currentLabels[i].color # color]
    ELSE IF ToLower(currentLabels[i].name) = ToLower(label)
    THEN [found |-> TRUE, needsUpdating |-> TRUE]
    ELSE FindLabel(currentLabels, i + 1, label, color)

\* the call one iteration of the loop over LabelColors makes, if any
CanonicalCall(currentLabels, label) ==
    LET color == LabelColors[label]
        f == FindLabel(currentLabels, 1, label, color)
    IN IF ~f.found THEN <<CreateLabelCall(label, color)>>
       ELSE IF f.needsUpdating THEN <<EditLabelCall(label, color)>>
       ELSE <<>>

\* the loop over LabelColors, a map: the iteration order is any order
RECURSIVE CanonicalCalls(_, _, _)
CanonicalCalls(currentLabels, order, k) ==
    IF k > Len(order) THEN <<>>
    ELSE CanonicalCall(currentLabels, order[k])
         \o CanonicalCalls(currentLabels, order, k + 1)

\* every remote call of a run in which none fails, in the order made; all
\* decisions are taken on the labels fetched by the first call
CallPlan(currentLabels, order) ==
    <<ListLabelsCall>> \o DeprecatedCalls(currentLabels, 1)
                       \o CanonicalCalls(currentLabels, order, 1)

\* tracker side: the effect of one successful call on the repository's labels
ApplyCall(labels, c) ==
    CASE c.op = "DeleteLabel" ->
            SelectSeq(labels, LAMBDA a : a.name # c.name)
      [] c.op = "CreateLabel" ->
            Append(labels, [name |-> c.name, color |-> c.color])
      [] c.op = "EditLabel" ->
            LET exact == {i \in 1..Len(labels) : labels[i].name = c.name}
                loose == {i \in 1..Len(labels) :
                             ToLower(labels[i].name) = ToLower(c.name)}
                hit == IF exact # {} THEN exact ELSE loose
            IN [i \in 1..Len(labels) |->
                   IF i \in hit /\ \A j \in hit : i <= j
                   THEN [name |-> c.name, color |-> c.color]
                   ELSE labels[i]]
      [] OTHER -> labels

\* the calls of the plan from position i on, the failAt-th call of the run
\* failing (0: none fails): each error return ends the run
RECURSIVE ExecuteNoAbort(_, _, _, _)
ExecuteNoAbort(plan, i, failAt, acc) ==
    IF i > Len(plan)
    THEN [acc EXCEPT !.err = IF failAt \in 1..Len(plan) THEN "error" ELSE "nil"]
    ELSE IF i = failAt
    THEN ExecuteNoAbort(plan, i + 1, failAt,
             [acc EXCEPT !.calls = Append(@, [call |-> plan[i], ok |-> FALSE])])
    ELSE ExecuteNoAbort(plan, i + 1, failAt,
             [acc EXCEPT !.calls = Append(@, [call |-> plan[i], ok |-> TRUE]),
                         !.labels = ApplyCall(@, plan[i])])
RECURSIVE Execute(_, _, _, _)
Execute(plan, i, failAt, acc) ==
    IF i > Len(plan) THEN [acc EXCEPT !.err = "nil"]
    ELSE IF i = failAt
    THEN [acc EXCEPT !.calls = Append(@, [call |-> plan[i], ok |-> FALSE]),
                     !.err = "error"]
    ELSE Execute(plan, i + 1, failAt,
                 [acc EXCEPT !.calls = Append(@, [call |-> plan[i], ok |-> TRUE]),
                             !.labels = ApplyCall(@, plan[i])])

\* setupReviewFlagsInRepo on a repository holding `labels`
RunSetup(labels, order, failAt) ==
    Execute(CallPlan(labels, order), 1, failAt,
            [current |-> IF failAt = 1 THEN <<>> ELSE labels,
             calls |-> <<>>, labels |-> labels, err |-> "none"])

MapOrders == {o \in [1..3 -> DOMAIN LabelColors] : NoDup(o)}

RepoLabelValues ==
    [name : {"wip"}, color : {"207de5", "ededed"}]
    \cup [name : {"WIP"}, color : {"207de5"}]
    \cup [name : {"caked"}, color : {"009800"}]
    \cup [name : {"Awaiting Cake", "awaiting cake", "bug"}, color : {"ededed"}]

RepoLabelLists ==
    {l \in SeqsUpTo(RepoLabelValues, MaxRepoLabels) :
        \A i, j \in 1..Len(l) : i # j => l[i].name # l[j].name}

InitProvision ==
    /\ repoLabels \in [{1} -> RepoLabelLists]
    /\ provRun = 0
    /\ result = NoResult
    /\ prevResult = NoResult
    /\ review = NoReview /\ status = "none"
    /\ issueTitle = <<>> /\ issueBody = <<>>
    /\ srvComments = <<>> /\ srvLabels = <<>>
    /\ pc = "provision"
    /\ page = 0 /\ allComments = <<>> /\ calls = <<>>
    /\ err = "none" /\ run = 0 /\ prev = NoPrev
    /\ SyncIdle
    /\ LinkIdle
    /\ WebIdle

setupReviewFlagsInRepo ==
    /\ pc = "provision"
    /\ provRun < MaxRuns
    /\ \E order \in MapOrders :
       \E failAt \in 0..Len(CallPlan(repoLabels[1], order)) :
          LET r == RunSetup(repoLabels[1], order, failAt) IN
          /\ result' = r
          /\ repoLabels' = [repoLabels EXCEPT ![1] = r.labels]
    /\ prevResult' = result
    /\ provRun' = provRun + 1
    /\ UNCHANGED <<reconcileVars, syncVars, linkVars, webVars>>

NextProvision == setupReviewFlagsInRepo

SpecProvision == InitProvision /\ [][NextProvision]_vars

(***************************************************************************)
(* Bulk sync: runBulkSync with ReviewRequestsInOrg, and                    *)
(* ensureOrgReposHaveLabels. runBulkSync's first goroutine returns before  *)
(* its call of ensureOrgReposHaveLabels, so that function is also run on   *)
(* its own (entry).                                                        *)
(***************************************************************************)
\* n items, in order, cut into pages after the positions in cuts
PagesOf(n, cuts) ==
    LET ends == cuts \cup {n}
        endAt(j) == CHOOSE e \in ends : Cardinality({x \in ends : x <= e}) = j
        startAt(j) == IF j = 1 THEN 1 ELSE endAt(j - 1) + 1
    IN [j \in 1..Cardinality(ends) |->
           [m \in 1..(endAt(j) - startAt(j) + 1) |-> startAt(j) + m - 1]]

\* the ways the tracker may serve n items: at least one page, the last one
\* carrying no next page
Splits(n) ==
    IF n = 0 THEN { << <<>> >> }
    ELSE {PagesOf(n, cuts) : cuts \in SUBSET (1..(n - 1))}

K_plain == [pr |-> FALSE, title |-> T_add, body |-> <<>>,
            comments |-> << <<>> >>, labels |-> <<>>]
K_wip == [pr |-> TRUE, title |-> T_wip, body |-> <<>>,
          comments |-> << <<B_cake>> >>, labels |-> <<"caked", "team:x">>]
K_caked == [pr |-> TRUE, title |-> T_add, body |-> <<>>,
            comments |-> << <<B_ok>>, <<B_cake>> >>, labels |-> <<"caked">>]
IssueKinds == {K_plain, K_wip, K_caked}

\* a repository lacking one canonical label, and one holding a canonical
\* label in another casing
R_lacking == <<[name |-> "wip", color |-> "207de5"],
               [name |-> "caked", color |-> "009800"]>>
R_casing == <<[name |-> "WIP", color |-> "207de5"],
              [name |-> "caked", color |-> "009800"],
              [name |-> "awaiting-cake", color |-> "eb6420"]>>
SyncRepoLabelLists == {R_lacking, R_casing}

InitSync ==
    /\ entry \in {"runBulkSync", "ensureOrgReposHaveLabels"}
    /\ \E n \in 0..(IF entry = "runBulkSync" THEN MaxIssues ELSE 0) :
          /\ orgPages \in Splits(n)
          /\ tracker \in [1..n -> IssueKinds]
    /\ \E n \in (IF entry = "runBulkSync" THEN {MaxRepos} ELSE 0..MaxRepos) :
          /\ repoPages \in IF entry = "runBulkSync" THEN {PagesOf(n, {})}
                                                    ELSE Splits(n)
          /\ repoLabels \in [1..n -> IF entry = "runBulkSync" THEN {R_lacking}
                                                              ELSE SyncRepoLabelLists]
          /\ repoTask = [r \in 1..n |-> "none"]
    /\ mainPc = IF entry = "runBulkSync" THEN "start" ELSE "none"
    /\ wg = 0
    /\ walkPc = "none" /\ issuePc = "none"
    /\ walk = NoWalk /\ spawnIdx = 0 /\ task = <<>>
    /\ ePc = IF entry = "ensureOrgReposHaveLabels" THEN "list" ELSE "none"
    /\ ePage = IF entry = "ensureOrgReposHaveLabels" THEN 1 ELSE 0
    /\ eErr = "none"
    /\ repoWg = 0
    /\ provRun = 0 /\ result = NoResult /\ prevResult = NoResult
    /\ review = NoReview /\ status = "none"
    /\ issueTitle = <<>> /\ issueBody = <<>>
    /\ srvComments = <<>> /\ srvLabels = <<>>
    /\ pc = "sync"
    /\ page = 0 /\ allComments = <<>> /\ calls = <<>>
    /\ err = "none" /\ run = 0 /\ prev = NoPrev
    /\ LinkIdle
    /\ WebIdle

syncFixed == <<entry, orgPages, repoPages, status, issueTitle, issueBody,
               srvComments, srvLabels, pc, calls, err, run, prev,
               provRun, result, prevResult, linkVars, webVars>>
bulkIdle == <<ePc, ePage, eErr, repoWg, repoTask, repoLabels>>
ensureIdle == <<mainPc, wg, walkPc, issuePc, walk, spawnIdx, task, tracker,
                review, page, allComments>>

\* runBulkSync up to wg.Wait: wg.Add(2) and the two go statements
BulkStart ==
    /\ mainPc = "start"
    /\ wg' = wg + 2
    /\ walkPc' = "ready"
    /\ issuePc' = "list"
    /\ walk' = [NoWalk EXCEPT !.p = 1]
    /\ mainPc' = "wait"
    /\ UNCHANGED <<spawnIdx, task, tracker, review, page, allComments>>
    /\ UNCHANGED <<syncFixed, bulkIdle>>

\* the first goroutine: defer wg.Done(), return
RepoWalkReturn ==
    /\ walkPc = "ready"
    /\ walkPc' = "done"
    /\ wg' = wg - 1
    /\ UNCHANGED <<mainPc, issuePc, walk, spawnIdx, task, tracker, review,
                   page, allComments>>
    /\ UNCHANGED <<syncFixed, bulkIdle>>

\* ReviewRequestsInOrg: ghGet of the next page succeeds
OrgIssuesPage ==
    /\ issuePc = "list"
    /\ walk' = [walk EXCEPT !.idx = 1,
                            !.log = Append(@, OrgIssuesCall(walk.p, TRUE))]
    /\ issuePc' = "items"
    /\ UNCHANGED <<mainPc, wg, walkPc, spawnIdx, task, tracker, review, page,
                   allComments>>
    /\ UNCHANGED <<syncFixed, bulkIdle>>

\* ReviewRequestsInOrg: ghGet fails, nil and the error are returned; the
\* second goroutine logs, returns, and its deferred wg.Done runs
OrgIssuesErrorKeepItems ==
    /\ issuePc = "list"
    /\ walk' = [walk EXCEPT !.err = "error",
                            !.log = Append(@, OrgIssuesCall(walk.p, FALSE))]
    /\ issuePc' = "spawn"
    /\ spawnIdx' = 1
    /\ UNCHANGED <<mainPc, wg, walkPc, task, tracker, review, page,
                   allComments>>
    /\ UNCHANGED <<syncFixed, bulkIdle>>
OrgIssuesError ==
    /\ issuePc = "list"
    /\ walk' = [walk EXCEPT !.allIssues = <<>>, !.err = "error",
                            !.log = Append(@, OrgIssuesCall(walk.p, FALSE))]
    /\ issuePc' = "done"
    /\ wg' = wg - 1
    /\ UNCHANGED <<mainPc, walkPc, spawnIdx, task, tracker, review, page,
                   allComments>>
    /\ UNCHANGED <<syncFixed, bulkIdle>>

CurrentIssue == orgPages[walk.p][walk.idx]

\* the loop over pageIssues: an issue without PullRequestLinks is excluded
SkipPlainIssue ==
    /\ issuePc = "items"
    /\ walk.idx <= Len(orgPages[walk.p])
    /\ ~tracker[CurrentIssue].pr
    /\ walk' = [walk EXCEPT !.idx = @ + 1]
    /\ UNCHANGED <<mainPc, wg, walkPc, issuePc, spawnIdx, task, tracker,
                   review, page, allComments>>
    /\ UNCHANGED <<syncFixed, bulkIdle>>

\* the loop over pageIssues: ReviewRequestFromIssue for a pull-request issue,
\* up to loadComments' loop
BeginReview ==
    /\ issuePc = "items"
    /\ walk.idx <= Len(orgPages[walk.p])
    /\ tracker[CurrentIssue].pr
    /\ review' = [title |-> tracker[CurrentIssue].title,
                  body |-> tracker[CurrentIssue].body,
                  labels |-> tracker[CurrentIssue].labels,
                  comments |-> <<>>]
    /\ page' = 1
    /\ allComments' = <<>>
    /\ issuePc' = "comments"
    /\ UNCHANGED <<mainPc, wg, walkPc, walk, spawnIdx, task, tracker>>
    /\ UNCHANGED <<syncFixed, bulkIdle>>

\* loadComments within the walk: a ListComments call that succeeds; after the
\* last page the review is appended to allIssues
WalkCommentsPage ==
    /\ issuePc = "comments"
    /\ allComments' = allComments \o tracker[CurrentIssue].comments[page]
    /\ IF page = Len(tracker[CurrentIssue].comments)
       THEN /\ review' = [review EXCEPT !.comments = allComments']
            /\ walk' = [walk EXCEPT
                           !.allIssues = Append(@, [id |-> CurrentIssue,
                                                    review |-> review']),
                           !.idx = @ + 1,
                           !.log = Append(@, WalkCommentsCall(CurrentIssue, page, TRUE))]
            /\ issuePc' = "items"
            /\ page' = page
       ELSE /\ page' = page + 1
            /\ walk' = [walk EXCEPT
                           !.log = Append(@, WalkCommentsCall(CurrentIssue, page, TRUE))]
            /\ UNCHANGED <<review, issuePc>>
    /\ UNCHANGED <<mainPc, wg, walkPc, spawnIdx, task, tracker>>
    /\ UNCHANGED <<syncFixed, bulkIdle>>

\* loadComments within the walk: a ListComments call that fails; the error is
\* dropped and the review is appended as it is
WalkCommentsError ==
    /\ issuePc = "comments"
    /\ walk' = [walk EXCEPT
                   !.allIssues = Append(@, [id |-> CurrentIssue,
                                            review |-> review]),
                   !.idx = @ + 1,
                   !.log = Append(@, WalkCommentsCall(CurrentIssue, page, FALSE))]
    /\ issuePc' = "items"
    /\ UNCHANGED <<mainPc, wg, walkPc, spawnIdx, task, tracker, review, page,
                   allComments>>
    /\ UNCHANGED <<syncFixed, bulkIdle>>

\* ReviewRequestsInOrg after a page's items: the next page, or the return of
\* allIssues when ghNextPageURL gives no URL
NextOrgPageStopEarly ==
    /\ issuePc = "items"
    /\ walk.idx > Len(orgPages[walk.p])
    /\ walk' = [walk EXCEPT !.err = "nil"]
    /\ issuePc' = "spawn"
    /\ spawnIdx' = 1
    /\ UNCHANGED <<mainPc, wg, walkPc, task, tracker, review, page,
                   allComments>>
    /\ UNCHANGED <<syncFixed, bulkIdle>>
NextOrgPage ==
    /\ issuePc = "items"
    /\ walk.idx > Len(orgPages[walk.p])
    /\ IF walk.p < Len(orgPages)
       THEN /\ walk' = [walk EXCEPT !.p = @ + 1]
            /\ issuePc' = "list"
            /\ UNCHANGED spawnIdx
       ELSE /\ walk' = [walk EXCEPT !.err = "nil"]
            /\ issuePc' = "spawn"
            /\ spawnIdx' = 1
    /\ UNCHANGED <<mainPc, wg, walkPc, task, tracker, review, page,
                   allComments>>
    /\ UNCHANGED <<syncFixed, bulkIdle>>

\* the second goroutine's loop: wg.Add(1) and the go statement
SpawnTaskNoAdd ==
    /\ issuePc = "spawn"
    /\ spawnIdx <= Len(walk.allIssues)
    /\ task' = Append(task, [st |-> "running", err |-> "none", sent |-> <<>>])
    /\ spawnIdx' = spawnIdx + 1
    /\ UNCHANGED <<mainPc, wg, walkPc, issuePc, walk, tracker, review, page,
                   allComments>>
    /\ UNCHANGED <<syncFixed, bulkIdle>>
SpawnTask ==
    /\ issuePc = "spawn"
    /\ spawnIdx <= Len(walk.allIssues)
    /\ wg' = wg + 1
    /\ task' = Append(task, [st |-> "running", err |-> "none", sent |-> <<>>])
    /\ spawnIdx' = spawnIdx + 1
    /\ UNCHANGED <<mainPc, walkPc, issuePc, walk, tracker, review, page,
                   allComments>>
    /\ UNCHANGED <<syncFixed, bulkIdle>>

\* the second goroutine after its loop: return, and the deferred wg.Done
IssueWalkReturn ==
    /\ issuePc = "spawn"
    /\ spawnIdx > Len(walk.allIssues)
    /\ issuePc' = "done"
    /\ wg' = wg - 1
    /\ UNCHANGED <<mainPc, walkPc, walk, spawnIdx, task, tracker, review,
                   page, allComments>>
    /\ UNCHANGED <<syncFixed, bulkIdle>>

\* a per-issue goroutine: updateIssueReviewLabels(gh, l, pr), then wg.Done()
RunTaskSharedLoopVar(i) ==
    /\ i \in 1..Len(task)
    /\ task[i].st = "running"
    /\ LET pr == walk.allIssues[Len(task)]
           scan == ScanLabels(pr.review)
       IN IF LabelsNeedUpdating(scan)
          THEN \E ok \in BOOLEAN :
                 /\ tracker' = IF ok
                               THEN [tracker EXCEPT ![pr.id].labels = scan.newLabels]
                               ELSE tracker
                 /\ task' = [task EXCEPT ![i] =
                               [st |-> "done",
                                err |-> IF ok THEN "nil" ELSE "error",
                                sent |-> scan.newLabels]]
          ELSE /\ task' = [task EXCEPT ![i] =
                             [st |-> "done", err |-> "nil", sent |-> <<>>]]
               /\ UNCHANGED tracker
    /\ wg' = wg - 1
    /\ UNCHANGED <<mainPc, walkPc, issuePc, walk, spawnIdx, review, page,
                   allComments>>
    /\ UNCHANGED <<syncFixed, bulkIdle>>
RunTaskDoneOnSuccess(i) ==
    /\ i \in 1..Len(task)
    /\ task[i].st = "running"
    /\ LET pr == walk.allIssues[i]
           scan == ScanLabels(pr.review)
       IN IF LabelsNeedUpdating(scan)
          THEN \E ok \in BOOLEAN :
                 /\ tracker' = IF ok
                               THEN [tracker EXCEPT ![pr.id].labels = scan.newLabels]
                               ELSE tracker
                 /\ task' = [task EXCEPT ![i] =
                               [st |-> IF ok THEN "done" ELSE "aborted",
                                err |-> IF ok THEN "nil" ELSE "error",
                                sent |-> scan.newLabels]]
                 /\ wg' = IF ok THEN wg - 1 ELSE wg
          ELSE /\ task' = [task EXCEPT ![i] =
                             [st |-> "done", err |-> "nil", sent |-> <<>>]]
               /\ wg' = wg - 1
               /\ UNCHANGED tracker
    /\ UNCHANGED <<mainPc, walkPc, issuePc, walk, spawnIdx, review, page,
                   allComments>>
    /\ UNCHANGED <<syncFixed, bulkIdle>>
RunTask(i) ==
    /\ i \in 1..Len(task)
    /\ task[i].st = "running"
    /\ LET pr == walk.allIssues[i]
           scan == ScanLabels(pr.review)
       IN IF LabelsNeedUpdating(scan)
          THEN \E ok \in BOOLEAN :
                 /\ tracker' = IF ok
                               THEN [tracker EXCEPT ![pr.id].labels = scan.newLabels]
                               ELSE tracker
                 /\ task' = [task EXCEPT ![i] =
                               [st |-> "done",
                                err |-> IF ok THEN "nil" ELSE "error",
                                sent |-> scan.newLabels]]
          ELSE /\ task' = [task EXCEPT ![i] =
                             [st |-> "done", err |-> "nil", sent |-> <<>>]]
               /\ UNCHANGED tracker
    /\ wg' = wg - 1
    /\ UNCHANGED <<mainPc, walkPc, issuePc, walk, spawnIdx, review, page,
                   allComments>>
    /\ UNCHANGED <<syncFixed, bulkIdle>>

\* wg.Wait() returns, and runBulkSync with it
BulkReturn ==
    /\ mainPc = "wait"
    /\ wg = 0
    /\ mainPc' = "returned"
    /\ UNCHANGED <<wg, walkPc, issuePc, walk, spawnIdx, task, tracker, review,
                   page, allComments>>
    /\ UNCHANGED <<syncFixed, bulkIdle>>

\* ensureOrgReposHaveLabels: ListByOrg succeeds; wg.Add(1) and a go statement
\* for each repository of the page; then the next page, or wg.Wait
ReposPage ==
    /\ ePc = "list"
    /\ repoWg' = repoWg + Len(repoPages[ePage])
    /\ repoTask' = [r \in DOMAIN repoTask |->
                       IF r \in {repoPages[ePage][k] : k \in 1..Len(repoPages[ePage])}
                       THEN "running" ELSE repoTask[r]]
    /\ IF ePage = Len(repoPages)
       THEN ePc' = "wait" /\ UNCHANGED ePage
       ELSE ePage' = ePage + 1 /\ UNCHANGED ePc
    /\ UNCHANGED <<eErr, repoLabels>>
    /\ UNCHANGED <<syncFixed, ensureIdle>>

\* ensureOrgReposHaveLabels: ListByOrg fails and the error is returned
ReposPageError ==
    /\ ePc = "list"
    /\ ePc' = "returned"
    /\ eErr' = "error"
    /\ UNCHANGED <<ePage, repoWg, repoTask, repoLabels>>
    /\ UNCHANGED <<syncFixed, ensureIdle>>

\* a per-repository goroutine: setupReviewFlagsInRepo, the log lines, and the
\* deferred wg.Done
RunRepoTask(r) ==
    /\ r \in DOMAIN repoTask
    /\ repoTask[r] = "running"
    /\ \E order \in MapOrders :
       \E failAt \in 0..Len(CallPlan(repoLabels[r], order)) :
          LET res == RunSetup(repoLabels[r], order, failAt) IN
          /\ repoLabels' = [repoLabels EXCEPT ![r] = res.labels]
          /\ repoTask' = [repoTask EXCEPT ![r] =
                             IF res.err = "nil" THEN "ok" ELSE "failed"]
    /\ repoWg' = repoWg - 1
    /\ UNCHANGED <<ePc, ePage, eErr>>
    /\ UNCHANGED <<syncFixed, ensureIdle>>

\* wg.Wait() returns, and ensureOrgReposHaveLabels returns nil
EnsureReturn ==
    /\ ePc = "wait"
    /\ repoWg = 0
    /\ ePc' = "returned"
    /\ eErr' = "nil"
    /\ UNCHANGED <<ePage, repoWg, repoTask, repoLabels>>
    /\ UNCHANGED <<syncFixed, ensureIdle>>

IssueWalkStep ==
    \/ OrgIssuesPage
    \/ OrgIssuesError
    \/ SkipPlainIssue
    \/ BeginReview
    \/ WalkCommentsPage
    \/ WalkCommentsError
    \/ NextOrgPage
    \/ SpawnTask
    \/ IssueWalkReturn

EnsureStep ==
    \/ ReposPage
    \/ ReposPageError
    \/ EnsureReturn

NextSync ==
    \/ BulkStart
    \/ RepoWalkReturn
    \/ IssueWalkStep
    \/ \E i \in 1..MaxIssues : RunTask(i)
    \/ BulkReturn
    \/ EnsureStep
    \/ \E r \in 1..MaxRepos : RunRepoTask(r)

SpecSync == InitSync /\ [][NextSync]_vars

\* every goroutine that can take a step eventually takes one, and every
\* remote call returns
FairSync ==
    /\ SpecSync
    /\ WF_vars(BulkStart)
    /\ WF_vars(RepoWalkReturn)
    /\ WF_vars(IssueWalkStep)
    /\ \A i \in 1..MaxIssues : WF_vars(RunTask(i))
    /\ WF_vars(BulkReturn)
    /\ WF_vars(EnsureStep)
    /\ \A r \in 1..MaxRepos : WF_vars(RunRepoTask(r))

(***************************************************************************)
(* Link header parsing: ghNextPageURL                                      *)
(***************************************************************************)
MaxLinks == 2

\* strings.TrimSpace, over the one white-space character the model uses
RECURSIVE TrimSpace(_)
TrimSpace(s) ==
    IF s = <<>> THEN s
    ELSE IF Head(s) = " " THEN TrimSpace(Tail(s))
    ELSE IF s[Len(s)] = " " THEN TrimSpace(SubSeq(s, 1, Len(s) - 1))
    ELSE s

\* strings.Split(s, sep) for a one-character separator: the pieces between
\* the separators, empty pieces included
RECURSIVE SplitFrom(_, _, _, _)
SplitFrom(s, sep, i, piece) ==
    IF i > Len(s) THEN <<piece>>
    ELSE IF s[i] = sep THEN <<piece>> \o SplitFrom(s, sep, i + 1, <<>>)
    ELSE SplitFrom(s, sep, i + 1, Append(piece, s[i]))

Split(s, sep) == SplitFrom(s, sep, 1, <<>>)

HasPrefix(s, c) == Len(s) >= 1 /\ s[1] = c

HasSuffix(s, c) == Len(s) >= 1 /\ s[Len(s)] = c

RelNext == <<"r", "e", "l", "=", "\"", "n", "e", "x", "t", "\"">>

\* the href check of ghNextPageURL
HrefAnyShape(seg) == TRUE
HrefWellFormed(seg) == HasPrefix(seg, "<") /\ HasSuffix(seg, ">")

\* the loop of ghNextPageURL over the comma-separated links, from index i
RECURSIVE ScanLinks(_, _)
ScanLinks(links, i) ==
    IF i > Len(links) THEN <<>>
    ELSE LET segments == Split(TrimSpace(links[i]), ";") IN
         IF Len(segments) < 2 THEN ScanLinks(links, i + 1)
         ELSE IF ~HrefWellFormed(segments[1]) THEN ScanLinks(links, i + 1)
         ELSE IF \E j \in 2..Len(segments) : Contains(segments[j], RelNext)
         THEN SubSeq(segments[1], 2, Len(segments[1]) - 1)
         ELSE ScanLinks(links, i + 1)

ghNextPageURL(r) ==
    IF r.kind = "nil" THEN <<>>
    ELSE IF r.links = <<>> THEN <<>>
    ELSE ScanLinks(Split(r.links[1], ","), 1)

\* what the tracker sends: entry k of a link list has the URL "u<k>", written
\* with or without each angle bracket, and zero or more parameters
RelPrev == <<"r", "e", "l", "=", "\"", "p", "r", "e", "v", "\"">>
TypeParam == <<"t", "=", "\"", "x", "\"">>
LinkParams == {RelNext, RelPrev, TypeParam}
LinkEntries == [open : BOOLEAN, close : BOOLEAN, params : SeqsUpTo(LinkParams, 2)]

Digit(k) == <<"0", "1", "2", "3", "4", "5">>[k + 1]

EntryURL(k) == <<"u", Digit(k)>>

RECURSIVE RenderParams(_)
RenderParams(ps) ==
    IF ps = <<>> THEN <<>>
    ELSE <<";", " ">> \o Head(ps) \o RenderParams(Tail(ps))

RenderEntry(d, k) ==
    (IF d.open THEN <<"<">> ELSE <<>>) \o EntryURL(k)
        \o (IF d.close THEN <<">">> ELSE <<>>) \o RenderParams(d.params)

RECURSIVE RenderLinks(_, _)
RenderLinks(ds, k) ==
    IF k > Len(ds) THEN <<>>
    ELSE (IF k = 1 THEN <<>> ELSE <<",", " ">>)
             \o RenderEntry(ds[k], k) \o RenderLinks(ds, k + 1)

InitLink ==
    /\ serverLinks \in SeqsUpTo(LinkEntries, MaxLinks)
    /\ linkResp \in {[kind |-> "nil", links |-> <<>>],
                     [kind |-> "response", links |-> <<>>],
                     [kind |-> "response",
                      links |-> <<RenderLinks(serverLinks, 1)>>]}
    /\ (linkResp.links = <<>>) => (serverLinks = <<>>)
    /\ nextURL = [returned |-> FALSE, url |-> <<>>]
    /\ review = NoReview /\ status = "none"
    /\ issueTitle = <<>> /\ issueBody = <<>>
    /\ srvComments = <<>> /\ srvLabels = <<>>
    /\ pc = "link"
    /\ page = 0 /\ allComments = <<>> /\ calls = <<>>
    /\ err = "none" /\ run = 0 /\ prev = NoPrev
    /\ ProvIdle
    /\ SyncIdle
    /\ WebIdle

NextPageURL ==
    /\ ~nextURL.returned
    /\ nextURL' = [returned |-> TRUE, url |-> ghNextPageURL(linkResp)]
    /\ UNCHANGED <<serverLinks, linkResp>>
    /\ UNCHANGED <<reconcileVars, provVars, syncVars, webVars>>

NextLink == NextPageURL

SpecLink == InitLink /\ [][NextLink]_vars

(***************************************************************************)
(* Webhook handler: githubWebhook                                          *)
(***************************************************************************)
HandledEventsWithPing == {"pull_request", "issue_comment", "ping"}
HandledEvents == {"pull_request", "issue_comment"}

IssuesGetCall(ok) ==
    [by |-> "githubWebhook", op |-> "Issues.Get", arg |-> <<>>, ok |-> ok]

\* request bodies: one that is not JSON, and payloads by their action, their
\* issue (absent, without pull-request links, with them, or with them and
\* number 0) and the presence of their pull_request
Payloads == [json : {TRUE},
             action : {"opened", "created", "closed"},
             issue : {"none", "plain", "pr", "prZero"},
             pullRequest : BOOLEAN]
MalformedBody == [json |-> FALSE, action |-> "", issue |-> "none",
                  pullRequest |-> FALSE]
Bodies == {MalformedBody} \cup Payloads
Deliveries == [event : {"pull_request", "issue_comment", "ping", "push"},
               body : Bodies]

WebLabelLists == {<<>>, <<AwaitingCakeLabel>>, <<CakedLabel, "team:x">>}

InitWebhook ==
    /\ delivery \in Deliveries
    /\ decoded = FALSE
    /\ responseCode = 0
    /\ issueTitle \in IssueTitles
    /\ issueBody = <<>>
    /\ srvComments \in Histories
    /\ srvLabels \in WebLabelLists
    /\ review = NoReview
    /\ status = "none"
    /\ pc = "request"
    /\ page = 0 /\ allComments = <<>> /\ calls = <<>>
    /\ err = "none" /\ run = 0 /\ prev = NoPrev
    /\ ProvIdle
    /\ SyncIdle
    /\ LinkIdle

webFixed == <<delivery, issueTitle, issueBody, srvComments, run, prev>>

Handled == delivery.event \in HandledEvents

Decodes == delivery.body.json

\* payload.Issue != nil && *payload.Issue.Number != 0 &&
\* payload.Issue.PullRequestLinks != nil
FoundIssueWithLinks == delivery.body.issue = "pr"

\* payload.PullRequest != nil && payload.Action == "opened"
FoundOpenedPullRequest ==
    delivery.body.pullRequest /\ delivery.body.action = "opened"

\* the default case of the switch on the event type
WebhookIgnored ==
    /\ pc = "request"
    /\ ~Handled
    /\ responseCode' = 200
    /\ pc' = "responded"
    /\ UNCHANGED <<decoded, review, status, srvLabels, page, allComments,
                   calls, err>>
    /\ UNCHANGED <<webFixed, provVars, syncVars, linkVars>>

\* the decoder returns an error
WebhookDecodeError ==
    /\ pc = "request"
    /\ Handled
    /\ ~Decodes
    /\ decoded' = TRUE
    /\ responseCode' = 501
    /\ pc' = "responded"
    /\ UNCHANGED <<review, status, srvLabels, page, allComments, calls, err>>
    /\ UNCHANGED <<webFixed, provVars, syncVars, linkVars>>

\* neither branch applies: "payload does not refer to pull request"
WebhookNoTrigger ==
    /\ pc = "request"
    /\ Handled
    /\ Decodes
    /\ ~FoundIssueWithLinks
    /\ ~FoundOpenedPullRequest
    /\ decoded' = TRUE
    /\ responseCode' = 200
    /\ pc' = "responded"
    /\ UNCHANGED <<review, status, srvLabels, page, allComments, calls, err>>
    /\ UNCHANGED <<webFixed, provVars, syncVars, linkVars>>

\* the second branch, gh.Issues.Get failing
WebhookIssueGetError ==
    /\ pc = "request"
    /\ Handled
    /\ Decodes
    /\ ~FoundIssueWithLinks
    /\ FoundOpenedPullRequest
    /\ decoded' = TRUE
    /\ calls' = <<IssuesGetCall(FALSE)>>
    /\ err' = "error"
    /\ responseCode' = 501
    /\ pc' = "responded"
    /\ UNCHANGED <<review, status, srvLabels, page, allComments>>
    /\ UNCHANGED <<webFixed, provVars, syncVars, linkVars>>

\* triggerInspection set by either branch (the second one with gh.Issues.Get
\* succeeding), then ReviewRequestFromIssue up to loadComments' loop
WebhookTrigger ==
    /\ pc = "request"
    /\ Handled
    /\ Decodes
    /\ FoundIssueWithLinks \/ FoundOpenedPullRequest
    /\ decoded' = TRUE
    /\ calls' = IF FoundIssueWithLinks THEN <<>> ELSE <<IssuesGetCall(TRUE)>>
    /\ review' = [title |-> issueTitle, body |-> issueBody,
                  labels |-> srvLabels, comments |-> <<>>]
    /\ page' = 1
    /\ allComments' = <<>>
    /\ pc' = "loadComments"
    /\ UNCHANGED <<responseCode, status, srvLabels, err>>
    /\ UNCHANGED <<webFixed, provVars, syncVars, linkVars>>

\* updateIssueReviewLabels and the response that follows it
WebhookReconcileAlwaysOK ==
    /\ pc = "update"
    /\ LET scan == ScanLabels(review) IN
       /\ status' = scan.newLabels[1]
       /\ IF LabelsNeedUpdating(scan)
          THEN \E ok \in BOOLEAN :
                 /\ calls' = Append(calls, ReplaceLabelsCall(scan.newLabels, ok))
                 /\ srvLabels' = IF ok THEN scan.newLabels ELSE srvLabels
                 /\ err' = IF ok THEN "nil" ELSE "error"
          ELSE /\ err' = "nil"
               /\ UNCHANGED <<calls, srvLabels>>
    /\ responseCode' = 200
    /\ pc' = "responded"
    /\ UNCHANGED <<decoded, review, page, allComments>>
    /\ UNCHANGED <<webFixed, provVars, syncVars, linkVars>>
WebhookReconcile ==
    /\ pc = "update"
    /\ LET scan == ScanLabels(review) IN
       /\ status' = scan.newLabels[1]
       /\ IF LabelsNeedUpdating(scan)
          THEN \E ok \in BOOLEAN :
                 /\ calls' = Append(calls, ReplaceLabelsCall(scan.newLabels, ok))
                 /\ srvLabels' = IF ok THEN scan.newLabels ELSE srvLabels
                 /\ err' = IF ok THEN "nil" ELSE "error"
          ELSE /\ err' = "nil"
               /\ UNCHANGED <<calls, srvLabels>>
    /\ responseCode' = IF err' = "nil" THEN 200 ELSE 501
    /\ pc' = "responded"
    /\ UNCHANGED <<decoded, review, page, allComments>>
    /\ UNCHANGED <<webFixed, provVars, syncVars, linkVars>>

NextWebhook ==
    \/ WebhookIgnored
    \/ WebhookDecodeError
    \/ WebhookNoTrigger
    \/ WebhookIssueGetError
    \/ WebhookTrigger
    \/ LoadCommentsPage
    \/ LoadCommentsError
    \/ WebhookReconcile

SpecWebhook == InitWebhook /\ [][NextWebhook]_vars

(***************************************************************************)
(* Properties of the classifier and of the single-issue flow               *)
(***************************************************************************)
Range(s) == {s[i] : i \in 1..Len(s)}

CallsBy(log, f) == SelectSeq(log, LAMBDA c : c.by = f)
Writes(log) == SelectSeq(log, LAMBDA c : c.op = "ReplaceLabelsForIssue")

RECURSIVE Flatten(_)
Flatten(pages) ==
    IF pages = <<>> THEN <<>> ELSE Head(pages) \o Flatten(Tail(pages))

TitleHasWip(t) ==
    \E i \in 1..(Len(t) - 2) :
        /\ t[i] \in {"w", "W"}
        /\ t[i + 1] \in {"i", "I"}
        /\ t[i + 2] \in {"p", "P"}

BodyHasCake(b) ==
    \E i \in 1..(Len(b) - 5) : \A k \in 1..6 : b[i + k - 1] = CakeMarker[k]

\* C1: the classification is "wip" when the title contains "wip" in any
\* casing, whatever the comments; otherwise "caked" when some comment body
\* contains ":cake:"; otherwise "awaiting-cake". The issue body, which the
\* inputs vary, does not enter the result.
C1_Precedence ==
    pc = "classified" =>
        status = IF TitleHasWip(review.title) THEN "wip"
                 ELSE IF \E i \in 1..Len(review.comments) :
                            BodyHasCake(review.comments[i]) THEN "caked"
                 ELSE "awaiting-cake"

C1_Witness ==
    /\ pc = "classified"
    /\ review.title = <<"s", "W", "i", "P">>
    /\ \E i \in 1..Len(review.comments) : BodyHasCake(review.comments[i])
    /\ BodyHasCake(review.body)
    /\ status = "wip"

StatusPresent == Range(review.labels) \cap StatusLabels

WriteRequired == StatusPresent = {} \/ \E l \in StatusPresent : l # status

\* C2: updateIssueReviewLabels issues exactly one ReplaceLabelsForIssue call
\* when the snapshot holds no status label or holds one that differs from
\* the target, and no remote call when the status label present is the
\* target.
C2_WriteIffRequired ==
    pc = "done" =>
        LET mine == CallsBy(calls, "updateIssueReviewLabels") IN
        IF WriteRequired
        THEN Len(mine) = 1 /\ mine[1].op = "ReplaceLabelsForIssue"
        ELSE mine = <<>>

C2_Witness ==
    /\ pc = "done"
    /\ StatusPresent = {status}
    /\ Range(review.labels) \ StatusLabels # {}
    /\ review.labels[1] \notin StatusLabels
    /\ CallsBy(calls, "updateIssueReviewLabels") = <<>>

\* C3: every replace call submits the target status and the snapshot's
\* non-status labels, each once, and nothing else.
C3_SubmittedLabels ==
    pc = "done" =>
        \A i \in 1..Len(Writes(calls)) :
            LET sent == Writes(calls)[i].arg IN
            /\ Range(sent) = {status} \cup (Range(review.labels) \ StatusLabels)
            /\ NoDup(sent)
            /\ status = CalculateAppropriateStatus(review)

C3_Witness ==
    /\ pc = "done"
    /\ review.labels = <<"wip", "team:x">>
    /\ status = "caked"
    /\ Writes(calls) # <<>>
    /\ Writes(calls)[1].arg = <<"caked", "team:x">>

SameRequestAsBefore ==
    /\ run >= 2
    /\ pc = "done"
    /\ review.title = prev.review.title
    /\ review.comments = prev.review.comments

\* C4 as claimed: two successive invocations on an unchanged request issue at
\* most one replace call in total, and the second issues none.
C4_AsClaimed ==
    SameRequestAsBefore =>
        /\ Len(Writes(prev.calls)) + Len(Writes(calls)) <= 1
        /\ Writes(calls) = <<>>

\* C4 as amended: that holds when the first invocation returned no error; when
\* its replace call failed, the second invocation issues the same call again.
C4_Idempotent ==
    SameRequestAsBefore =>
        /\ prev.err = "nil" =>
              /\ Len(Writes(prev.calls)) + Len(Writes(calls)) <= 1
              /\ Writes(calls) = <<>>
        /\ prev.err = "error" =>
              /\ Len(Writes(calls)) = 1
              /\ Writes(calls)[1].arg = Writes(prev.calls)[1].arg

C4_Witness ==
    /\ SameRequestAsBefore
    /\ prev.err = "nil"
    /\ Len(Writes(prev.calls)) = 1
    /\ Writes(calls) = <<>>
    /\ err = "nil"

\* C5 as claimed: once a reconciliation has returned, the issue carries at
\* most one status label.
C5_AsClaimed ==
    pc = "done" => Cardinality(Range(srvLabels) \cap StatusLabels) <= 1

\* C5 as amended: once a reconciliation has returned without error, the issue
\* carries at most one status label (the target).
C5_OneStatusLabel ==
    (pc = "done" /\ err = "nil") =>
        Range(srvLabels) \cap StatusLabels = {status}

C5_Witness ==
    /\ pc = "done"
    /\ err = "nil"
    /\ StatusLabels \subseteq Range(review.labels)
    /\ Cardinality(Range(srvLabels) \cap StatusLabels) = 1

\* C6 as claimed: a classification is made on the complete comment history
\* only, and after a failed comment-page request the invocation classifies
\* nothing and writes nothing.
C6_AsClaimed ==
    /\ status # "none" => review.comments = Flatten(srvComments)
    /\ (\E i \in 1..Len(calls) : calls[i].op = "ListComments" /\ ~calls[i].ok)
          => (status = "none" /\ Writes(calls) = <<>>)

(***************************************************************************)
(* Properties of the label provisioner                                     *)
(***************************************************************************)
CallsAbout(label) ==
    SelectSeq(result.calls,
              LAMBDA c : c.call.op \in {"CreateLabel", "EditLabel"}
                         /\ c.call.name = label)

FetchedExact(label) ==
    \E i \in 1..Len(result.current) :
        /\ result.current[i].name = label
        /\ result.current[i].color = LabelColors[label]

FetchedWrongColor(label) ==
    \E i \in 1..Len(result.current) :
        /\ result.current[i].name = label
        /\ result.current[i].color # LabelColors[label]

FetchedOtherCasing(label) ==
    \E i \in 1..Len(result.current) :
        /\ result.current[i].name # label
        /\ ToLower(result.current[i].name) = ToLower(label)

\* C10 as claimed: in a run none of whose calls fails, each canonical label
\* gets no call when the fetched labels hold it with its exact name and
\* canonical color (whatever else they hold), one update call when they hold
\* it only in another casing or with another color, and one create call when
\* they hold it in no casing.
C10_AsClaimed ==
    (provRun > 0 /\ result.err = "nil") =>
        \A label \in DOMAIN LabelColors :
            CallsAbout(label) =
                IF FetchedExact(label) THEN <<>>
                ELSE IF FetchedWrongColor(label) \/ FetchedOtherCasing(label)
                THEN <<[call |-> EditLabelCall(label, LabelColors[label]),
                        ok |-> TRUE]>>
                ELSE <<[call |-> CreateLabelCall(label, LabelColors[label]),
                        ok |-> TRUE]>>

WriteOps == {"CreateLabel", "EditLabel", "DeleteLabel"}

WriteCalls(log) == SelectSeq(log, LAMBDA c : c.call.op \in WriteOps)

\* C11 as claimed: a run that follows a run which returned no error, with no
\* change to the repository in between, issues no create, update or delete
\* call.
C11_AsClaimed ==
    (provRun >= 2 /\ prevResult.err = "nil") => WriteCalls(result.calls) = <<>>

HasLabel(labels, name, color) ==
    \E i \in 1..Len(labels) : labels[i].name = name /\ labels[i].color = color

HasName(labels, name) == \E i \in 1..Len(labels) : labels[i].name = name

\* C12: a run returns an error exactly when one of its calls failed; that
\* call is the last call of the run; and what the calls before it did to the
\* repository is still there (a deleted label is absent, a created or
\* updated label is present with its canonical color).
C12_FirstFailureAborts ==
    provRun > 0 =>
        /\ result.err = "error" <=>
               \E i \in 1..Len(result.calls) : ~result.calls[i].ok
        /\ \A i \in 1..Len(result.calls) :
               ~result.calls[i].ok => i = Len(result.calls)
        /\ \A i \in 1..Len(result.calls) :
               LET c == result.calls[i] IN
               /\ (c.ok /\ c.call.op = "DeleteLabel")
                     => ~HasName(repoLabels[1], c.call.name)
               /\ (c.ok /\ c.call.op \in {"CreateLabel", "EditLabel"})
                     => HasLabel(repoLabels[1], c.call.name, c.call.color)

C12_Witness ==
    /\ provRun = 1
    /\ result.err = "error"
    /\ Len(result.calls) >= 4
    /\ result.calls[2].call.op = "DeleteLabel"
    /\ result.calls[3].call.op = "CreateLabel"
    /\ result.calls[Len(result.calls)].call.op = "CreateLabel"
    /\ ~HasName(repoLabels[1], "Awaiting Cake")
    /\ HasName(repoLabels[1], result.calls[3].call.name)
    /\ ~result.calls[Len(result.calls)].ok

DeprecatedCasings == {"Awaiting Cake", "awaiting cake"}

FetchedDeprecated ==
    SelectSeq(result.current, LAMBDA a : a.name \in DeprecatedCasings)

DeleteCallsMade ==
    SelectSeq(result.calls, LAMBDA c : c.call.op = "DeleteLabel")

\* C13: the delete calls of a run are made, in the fetched order, for the
\* fetched labels named "Awaiting Cake" in any casing and for no other
\* label, one call for each of them unless an earlier call failed; and no
\* create or update call precedes a delete call.
C13_DeprecatedDeleted ==
    provRun > 0 =>
        /\ Len(DeleteCallsMade) <= Len(FetchedDeprecated)
        /\ \A i \in 1..Len(DeleteCallsMade) :
               DeleteCallsMade[i].call.name = FetchedDeprecated[i].name
        /\ (\A i \in 1..Len(DeleteCallsMade) : DeleteCallsMade[i].ok)
              => Len(DeleteCallsMade) = Len(FetchedDeprecated)
        /\ \A i, j \in 1..Len(result.calls) :
               (/\ result.calls[i].call.op \in {"CreateLabel", "EditLabel"}
                /\ result.calls[j].call.op = "DeleteLabel") => j < i

C13_Witness ==
    /\ provRun = 1
    /\ result.err = "nil"
    /\ Len(FetchedDeprecated) = 2
    /\ Len(DeleteCallsMade) = 2
    /\ HasName(result.current, "bug")
    /\ HasName(repoLabels[1], "bug")
    /\ \E i \in 1..Len(result.calls) : result.calls[i].call.op = "CreateLabel"

(***************************************************************************)
(* Properties of the bulk sync                                             *)
(***************************************************************************)
Repos == DOMAIN repoTask

BulkReturned == entry = "runBulkSync" /\ mainPc = "returned"

\* C7 as claimed: when runBulkSync returns, setupReviewFlagsInRepo has been
\* invoked for every repository of the organization.
C7_AsClaimed ==
    BulkReturned => \A r \in Repos : repoTask[r] \in {"ok", "failed"}

\* C8: when runBulkSync returns, both goroutines have returned and every
\* review request the issue walk returned has its task, which has finished
\* and has been counted by the join.
C8_JoinWaitsForAll ==
    BulkReturned =>
        /\ walkPc = "done"
        /\ issuePc = "done"
        /\ Len(task) = Len(walk.allIssues)
        /\ \A i \in 1..Len(task) : task[i].st = "done"
        /\ wg = 0

C8_Witness ==
    /\ BulkReturned
    /\ Len(task) >= 2
    /\ \A i \in 1..Len(task) : task[i].st = "done"

SomeUnitFailed ==
    \/ \E i \in 1..Len(task) : task[i].err = "error"
    \/ \E r \in Repos : repoTask[r] = "failed"

AllUnitsCompleted ==
    /\ \A i \in 1..Len(task) : task[i].st = "done"
    /\ \A r \in Repos : repoTask[r] # "running"

Joined ==
    \/ BulkReturned /\ Len(task) = Len(walk.allIssues)
    \/ entry = "ensureOrgReposHaveLabels" /\ ePc = "returned"

\* C9: once a unit has failed, every unit spawned still runs to completion
\* and the join completes.
C9_FailureIsolation == SomeUnitFailed ~> (Joined /\ AllUnitsCompleted)

C9_Witness ==
    /\ BulkReturned
    /\ \E i, j \in 1..Len(task) :
          /\ task[i].err = "error"
          /\ task[j].err = "nil"
          /\ task[j].sent # <<>>

PageFetches == SelectSeq(walk.log, LAMBDA c : c.op = "ghGet")

CommentFetches(id) ==
    SelectSeq(walk.log, LAMBDA c : c.op = "ListComments" /\ c.id = id)

PullRequestIds == SelectSeq(Flatten(orgPages), LAMBDA id : tracker[id].pr)

\* when the issue walk has returned without error: it made one request for
\* each of the N pages, in page order, and returned the pull-request issues
\* of all pages in the server's order; and for each of them whose comment
\* requests all succeeded, one request was made for each comment page and
\* the review holds the comments of all pages in the server's order
C14_Concatenation ==
    walk.err = "nil" =>
        /\ Len(PageFetches) = Len(orgPages)
        /\ \A k \in 1..Len(PageFetches) : PageFetches[k] = OrgIssuesCall(k, TRUE)
        /\ Len(walk.allIssues) = Len(PullRequestIds)
        /\ \A k \in 1..Len(walk.allIssues) :
               LET e == walk.allIssues[k]
                   f == CommentFetches(e.id)
               IN /\ e.id = PullRequestIds[k]
                  /\ (\A j \in 1..Len(f) : f[j].ok) =>
                        /\ Len(f) = Len(tracker[e.id].comments)
                        /\ \A j \in 1..Len(f) : f[j].page = j
                        /\ e.review.comments = Flatten(tracker[e.id].comments)

FailedPageFetch(k) ==
    k \in 1..Len(walk.log) /\ walk.log[k].op = "ghGet" /\ ~walk.log[k].ok

\* C17: once a page request of the issue walk has failed, it is the walk's
\* last request, the walk has returned the error and no item, no per-issue
\* task exists and no issue's labels have been replaced.
C17_FailedWalkStartsNothing ==
    \A k \in 1..Len(walk.log) :
        FailedPageFetch(k) =>
            /\ k = Len(walk.log)
            /\ walk.err = "error"
            /\ walk.allIssues = <<>>
            /\ issuePc = "done"
            /\ task = <<>>
            /\ \A id \in DOMAIN tracker : tracker[id] \in IssueKinds

C17_Witness ==
    /\ BulkReturned
    /\ FailedPageFetch(Len(walk.log))
    /\ walk.log[Len(walk.log)].page = 2
    /\ \E k \in 1..Len(walk.log) :
          walk.log[k].op = "ListComments" /\ walk.log[k].ok

TasksFor(id) == {k \in 1..Len(task) : walk.allIssues[k].id = id}

ExpectedLabels(r) ==
    {CalculateAppropriateStatus(r)} \cup (Range(r.labels) \ StatusLabels)

C19_AsClaimed ==
    (entry = "ensureOrgReposHaveLabels" /\ ePc = "returned")
        => \A r \in Repos : repoTask[r] # "running"

Selectable(d) ==
    /\ d.open /\ d.close
    /\ \E j \in 1..Len(d.params) : d.params[j] = RelNext

SelectableAt == {k \in 1..Len(serverLinks) : Selectable(serverLinks[k])}

\* C20: the parser returns the URL of the first entry of the link list that
\* has its URL in angle brackets, at least one parameter and the relation
\* "next", and the empty string when there is no such entry, no header or no
\* response; entries lacking a bracket or a parameter are never selected and
\* do not stop the scan.
C20_FirstNext ==
    nextURL.returned =>
        IF linkResp.kind = "response" /\ linkResp.links # <<>> /\ SelectableAt # {}
        THEN \E k \in SelectableAt :
                /\ \A j \in SelectableAt : k <= j
                /\ nextURL.url = EntryURL(k)
        ELSE nextURL.url = <<>>

C20_Witness ==
    /\ Len(serverLinks) = 2
    /\ ~serverLinks[1].close
    /\ serverLinks[1].params = <<RelNext>>
    /\ serverLinks[2].params = <<TypeParam, RelNext>>
    /\ nextURL = [returned |-> TRUE, url |-> EntryURL(2)]

Responded == responseCode # 0

\* C15: a delivery whose event type is neither "pull_request" nor
\* "issue_comment" makes no tracker call, its body is never decoded, and its
\* response is 200.
C15_IgnoredEvent ==
    (delivery.event \notin {"pull_request", "issue_comment"}) =>
        /\ calls = <<>>
        /\ ~decoded
        /\ Responded => responseCode = 200

C15_Witness ==
    /\ delivery.event = "ping"
    /\ delivery.body = MalformedBody
    /\ responseCode = 200

DecodeFailed ==
    /\ delivery.event \in {"pull_request", "issue_comment"}
    /\ ~delivery.body.json

IssueFetchFailed ==
    \E i \in 1..Len(calls) : calls[i].op = "Issues.Get" /\ ~calls[i].ok

ReconciliationFailed ==
    \E i \in 1..Len(calls) : calls[i].op = "ReplaceLabelsForIssue" /\ ~calls[i].ok

====
